---- MODULE Spec2Model ----
(***************************************************************************)
(* gagaga: a file browser that serves a directory subtree over HTTP.       *)
(*                                                                         *)
(* The module models the two parts of the repository that carry           *)
(* invariants:                                                             *)
(*   - the thumbnail cache actor, in its three generations                 *)
(*       main.rs (mod cachethumb), cachethumb.rs, thcache.rs,              *)
(*     together with the request task that uses it (serve_thumb);          *)
(*   - path validation (bad_path1) and boundary resolution (pathresolve,   *)
(*     mw_guard_virt_path) against a small file system with symlinks.      *)
(***************************************************************************)
EXTENDS Integers, Sequences, FiniteSets, TLC

\* ---------------------------------------------------------------- bounds
\* Largest wall-clock value (DateTime::now() is modelled as a counter).
MaxTime == 1
\* Largest content version a file reaches.
MaxVer == 1
\* Cap on the messages queued in the (unbounded) mpsc channel.
MaxQueue == 2
\* Longest client path, in characters.
MaxPathLen == 4
\* Most entries a listed directory holds.
MaxDirLen == 3
\* Largest listing limit (the const generic N of dirlist / dirlistjson).
MaxLimit == 2
\* Longest path handed to the validator on its own, in characters.
MaxNameLen == 4

\* The concurrent request tasks.
Clients == {"c1", "c2"}
Times == 0..MaxTime
Vers == 0..MaxVer

\* Option::None for a DateTime / a version.
NoTime == -1
\* The client id carried by a message that has no reply channel.
NoClient == "nobody"

\* The three generations of the cache in the repository.
Impls == {"main", "cachethumb", "thcache"}

VARIABLES
  impl,        \* which generation of the cache code runs
  now,         \* wall clock
  file,        \* the file behind the cache key, as stat / read see it
  cache,       \* the actor's map entry for the key: HashMap<path,(DateTime,Vec<u8>)>
  queue,       \* mpsc::unbounded_channel: messages in flight
  apc,         \* actor task position: "recv", "stat", "panicked", "exited"
  acur,        \* the Get message the actor is processing across its stat await
  senderAlive, \* the Mpsc / CacheProcess handle (the only sender) still exists
  cpc,         \* request task position
  ckey,        \* the key (resolved path) a request task is serving
  cbuf,        \* thumbnail bytes a request task generated (content version)
  oneshot,     \* per request task: state of its Get's one-shot reply channel
  cnow,        \* per request task: the `now` it read in CacheProcess::ins
  put,         \* history: per task, its last cache_put not yet followed by its get
  vpath,       \* resolver: the client path of the request in hand
  fsl,         \* resolver: where the symlink /r/l points ("none": no such link)
  fse,         \* resolver: whether the file /e/a (outside root) exists
  rres,        \* resolver: who handled the request in hand, and its outcome
  ragain,      \* resolver: outcome of resolving the request in hand once more
  ldir,        \* listing: the entries of the listed directory, in read_dir order
  lres,        \* listing: who listed the directory, and what came back
  lopen        \* listing: whether read_dir can open the directory

cacheVars == <<impl, now, file, cache, queue, apc, acur, senderAlive, cpc,
               ckey, cbuf, oneshot, cnow, put>>
pathVars == <<vpath, fsl, fse, rres, ragain>>
listVars == <<ldir, lres, lopen>>
vars == <<cacheVars, pathVars, listVars>>

\* ------------------------------------------------------------- paths
\* A path string is a sequence of characters; these are the characters the
\* client paths are built from.
PathChars == {"a", "l", "r", "e", "/", "."}

\* Every client path of at most MaxPathLen characters.
ClientPaths == UNION {[1..n -> PathChars] : n \in 0..MaxPathLen}

\* The characters of the paths the validator is tried on by itself: what
\* the reserved names CON, COM1 and their lower-case spellings are made of,
\* a space, the period and the separator.
NameChars == {"C", "O", "N", "M", "c", "o", "n", "1", "a", " ", ".", "/"}

\* Every such path of at most MaxNameLen characters.
NamePaths == UNION {[1..n -> NameChars] : n \in 0..MaxNameLen}

\* The pieces of a path string between its separators (empty pieces kept).
RECURSIVE SplitSlash(_)
SplitSlash(p) ==
  IF p = <<>> THEN << <<>> >>
  ELSE LET rest == SplitSlash(Tail(p))
       IN IF Head(p) = "/"
            THEN << <<>> >> \o rest
            ELSE << <<Head(p)>> \o Head(rest) >> \o Tail(rest)

HasRoot(p) == p # <<>> /\ Head(p) = "/"

Comp(kind, name) == [kind |-> kind, name |-> name]

\* std::path::Path::components() on Unix: a leading separator is RootDir,
\* repeated separators and `.` pieces are dropped (a `.` that opens a
\* relative path is CurDir), `..` is ParentDir, anything else is Normal.
RECURSIVE CompsOfSegs(_, _, _)
CompsOfSegs(segs, first, rooted) ==
  IF segs = <<>> THEN <<>>
  ELSE LET g == Head(segs)
           rest == CompsOfSegs(Tail(segs), FALSE, rooted)
       IN IF g = <<>> THEN rest
          ELSE IF g = <<".">>
            THEN (IF first /\ ~rooted THEN <<Comp("CurDir", g)>> ELSE <<>>) \o rest
          ELSE IF g = <<".", ".">> THEN <<Comp("ParentDir", g)>> \o rest
          ELSE <<Comp("Normal", g)>> \o rest

Components(p) ==
  (IF HasRoot(p) THEN <<Comp("RootDir", <<"/">>)>> ELSE <<>>)
    \o CompsOfSegs(SplitSlash(p), TRUE, HasRoot(p))

\* Mutant of Join: the path is pushed onto the shared root buffer, so the
\* second call starts from what the first call left there.
JoinPushesInPlace(base, p) ==
  LET pushed == IF rres.status = "Ok"
                  THEN [i \in 1..(2 * Len(rres.path)) |->
                          IF i % 2 = 1 THEN "/" ELSE rres.path[i \div 2]]
                  ELSE base
  IN IF HasRoot(p) THEN p
     ELSE IF p = <<>> THEN pushed
     ELSE pushed \o <<"/">> \o p

\* Path::join: an absolute argument replaces the base.
Join(base, p) ==
  IF HasRoot(p) THEN p
  ELSE IF p = <<>> THEN base
  ELSE base \o <<"/">> \o p

\* Path::strip_prefix("/").unwrap_or(path): drop a leading root.
RECURSIVE DropSlashes(_)
DropSlashes(p) == IF HasRoot(p) THEN DropSlashes(Tail(p)) ELSE p
StripRoot(p) == DropSlashes(p)

\* Path::starts_with: whole components, never a partial name.
StartsWithAlways(path, base) == TRUE

StartsWith(path, base) ==
  /\ Len(base) <= Len(path)
  /\ SubSeq(path, 1, Len(base)) = base

\* ------------------------------------------------------- the file system
\* Canonical absolute paths are sequences of names. The tree:
\*   /r      the served root (contains the file a and, maybe, the symlink l)
\*   /e      a directory outside the root (contains, maybe, the file a)
Root == <<"r">>
RootString == <<"/", "r">>
\* The symlink /r/l is absent, or points to the file /r/a, to the root
\* directory itself, to the outside directory /e or to the outside file /e/a.
LinkStates == {"none", "in", "indir", "out", "outfile"}

LinkTarget(l) ==
  CASE l = "in" -> <<"r", "a">>
    [] l = "indir" -> <<"r">>
    [] l = "out" -> <<"e">>
    [] l = "outfile" -> <<"e", "a">>
    [] OTHER -> <<>>

\* What lives at an absolute path, for link state l and outside file e.
Node(l, e, path) ==
  IF path = <<>> \/ path = <<"r">> \/ path = <<"e">> THEN "dir"
  ELSE IF path = <<"r", "a">> THEN "file"
  ELSE IF path = <<"r", "l">> /\ l # "none" THEN "link"
  ELSE IF path = <<"e", "a">> /\ e THEN "file"
  ELSE "absent"

NameOf(comp) == IF Len(comp.name) = 1 THEN comp.name[1] ELSE "?"

Failed == [ok |-> FALSE, path |-> <<>>]
Resolved(path) == [ok |-> TRUE, path |-> path]

\* realpath(3): walk the components from the root, following symlinks; every
\* component must exist, and only a directory can be walked through.
RECURSIVE Walk(_, _, _, _)
Walk(l, e, cur, comps) ==
  IF comps = <<>> THEN Resolved(cur)
  ELSE LET c == Head(comps)
           rest == Tail(comps)
       IN IF c.kind = "RootDir" THEN Walk(l, e, <<>>, rest)
          ELSE IF Node(l, e, cur) # "dir" THEN Failed
          ELSE IF c.kind = "CurDir" THEN Walk(l, e, cur, rest)
          ELSE IF c.kind = "ParentDir"
            THEN Walk(l, e, IF cur = <<>> THEN cur ELSE SubSeq(cur, 1, Len(cur) - 1), rest)
          ELSE LET child == Append(cur, NameOf(c))
                   kind == Node(l, e, child)
               IN IF kind = "absent" THEN Failed
                  ELSE IF kind = "link"
                    THEN IF Node(l, e, LinkTarget(l)) = "absent" THEN Failed
                         ELSE Walk(l, e, LinkTarget(l), rest)
                  ELSE Walk(l, e, child, rest)

\* tokio::fs::canonicalize of an absolute path string.
Canonicalize(l, e, p) == Walk(l, e, <<>>, Components(p))

\* The string form of a canonical path.
RECURSIVE PathString(_)
PathString(path) ==
  IF path = <<>> THEN <<"/">>
  ELSE IF Len(path) = 1 THEN <<"/", path[1]>>
  ELSE PathString(SubSeq(path, 1, Len(path) - 1)) \o <<"/", path[Len(path)]>>

\* ---------------------------------------------------------- bad_path1
\* The longest path, in bytes, that the validator lets through.
MaxPathBytes == 2048

IsAsciiControl(ch) == ch \in {"\t", "\n", "\r"}
IsBadChar(ch) == ch \in {"/", "<", ">", ":", "\"", "\\", "|", "?", "*"}
IsWhitespace(ch) == ch \in {" ", "\t", "\n", "\r"}
IsAsciiDigit(ch) == ch \in {"0", "1", "2", "3", "4", "5", "6", "7", "8", "9"}

\* str::split_once('.') keeping the part before the first period, or the whole
\* string when it has none.
RECURSIVE BeforeFirstDot(_)
BeforeFirstDot(name) ==
  IF name = <<>> \/ Head(name) = "." THEN <<>>
  ELSE <<Head(name)>> \o BeforeFirstDot(Tail(name))

HasEdgeWhitespace(name) ==
  name # <<>> /\ (IsWhitespace(name[1]) \/ IsWhitespace(name[Len(name)]))

IsReservedName(name) ==
  name \in {<<"C", "O", "N">>, <<"P", "R", "N">>, <<"A", "U", "X">>, <<"N", "U", "L">>}

\* component.get(..=3) is the first FOUR characters; it is compared with the
\* three-character names, and the digit is looked for at index 4.
IsReservedDevice(name) ==
  /\ Len(name) >= 4
  /\ SubSeq(name, 1, 4) \in {<<"C", "O", "M">>, <<"L", "P", "T">>}
  /\ Len(name) >= 5
  /\ IsAsciiDigit(name[5])

\* The verdict of the loop body on one component, with the `else` branch
\* for the components that are not Normal left out.
ComponentBadNormalOnly(comp) ==
  /\ comp.kind = "Normal"
  /\ LET stem == BeforeFirstDot(comp.name)
     IN \/ HasEdgeWhitespace(stem)
        \/ IsReservedName(stem)
        \/ IsReservedDevice(stem)

\* The verdict of the loop body on one component.
ComponentBad(comp) ==
  IF comp.kind = "Normal"
    THEN LET stem == BeforeFirstDot(comp.name)
         IN \/ HasEdgeWhitespace(stem)
            \/ IsReservedName(stem)
            \/ IsReservedDevice(stem)
    ELSE TRUE

\* TRUE when the path is rejected. (Every path string of the model is valid
\* UTF-8, so the two to_str() checks never reject.)
bad_path1(p) ==
  \/ Len(p) > MaxPathBytes
  \/ \E i \in 1..Len(p) : IsAsciiControl(p[i]) \/ IsBadChar(p[i])
  \/ \E i \in 1..Len(Components(p)) : ComponentBad(Components(p)[i])

\* ------------------------------------------------------------ resolvers
Outcome(by, status, path) ==
  [by |-> by, status |-> status, path |-> path, fs |-> <<>>]
NoOutcome == Outcome("nobody", "idle", <<>>)

\* The outcome of a handler that made the file system calls `calls`, in
\* this order, before it returned.
AfterCalls(calls, o) == [o EXCEPT !.fs = calls]

\* pathresolve (domain.rs; domainprim.rs and main.rs hold the same code):
\* every failure is UnifiedError::NotFound.
pathresolve(l, e, pathuser) ==
  IF \E i \in 1..Len(Components(pathuser)) :
        Components(pathuser)[i].kind \notin {"Normal", "RootDir"}
    THEN Outcome("pathresolve", "NotFound", <<>>)
  ELSE LET path == Canonicalize(l, e, Join(RootString, pathuser))
       IN AfterCalls(<<"canonicalize">>,
            IF ~path.ok THEN Outcome("pathresolve", "NotFound", <<>>)
            ELSE IF ~StartsWith(path.path, Root)
              THEN Outcome("pathresolve", "NotFound", <<>>)
            ELSE Outcome("pathresolve", "Ok", path.path))

\* mw_guard_virt_path (api.rs): 400 for the two quick checks and for the
\* inclusivity check, 404 when canonicalize fails.
mw_guard_virt_path(l, e, vp) ==
  IF bad_path1(vp) THEN Outcome("mw_guard_virt_path", "BadRequest", <<>>)
  ELSE LET real_path == Canonicalize(l, e, Join(RootString, StripRoot(vp)))
       IN AfterCalls(<<"canonicalize">>,
            IF ~real_path.ok THEN Outcome("mw_guard_virt_path", "NotFound", <<>>)
            ELSE IF ~StartsWith(real_path.path, Root)
              THEN Outcome("mw_guard_virt_path", "BadRequest", <<>>)
            ELSE IF bad_path1(PathString(real_path.path))
              THEN Outcome("mw_guard_virt_path", "BadRequest", <<>>)
            ELSE Outcome("mw_guard_virt_path", "Ok", real_path.path))

\* The validator called on its own.
Validate(p) ==
  Outcome("bad_path1", IF bad_path1(p) THEN "Rejected" ELSE "Accepted", <<>>)

\* -------------------------------------------------- directory entries
\* What a directory entry is on the host:
\*   file, dir      a regular file, a directory
\*   fifo           an object that is neither file, directory nor symlink
\*   ioerr          read_dir's iterator yields Err for this entry
\*   staterr        file_type() / metadata() of the entry fail
\*   link_in        a symlink to a regular file inside the root
\*   link_out       a symlink to a regular file outside the root
\*   link_dead      a symlink whose target does not exist
EntryTags == {"file", "dir", "fifo", "ioerr", "staterr",
              "link_in", "link_out", "link_dead"}
LinkTags == {"link_in", "link_out", "link_dead"}

\* Every directory of at most MaxDirLen entries.
Dirs == UNION {[1..n -> EntryTags] : n \in 0..MaxDirLen}

\* Option::None for the limit of listdirsync.
NoLimit == -1
Limits == 0..MaxLimit

\* The type bits lstat reports for the entry itself.
NativeKind(t) ==
  IF t \in LinkTags THEN "symlink"
  ELSE IF t \in {"file", "dir"} THEN t
  ELSE "other"

\* The type bits stat reports after following the symlink.
TargetKind(t) == IF t \in {"link_in", "link_out"} THEN "file" ELSE NativeKind(t)

\* Whether canonicalize succeeds on the entry's path, and whether the
\* canonical path starts with the root.
CanonOk(t) == t # "link_dead"
CanonInRoot(t) == t # "link_out"

\* ------------------------------------------------------- stat, listing
\* vfsa.rs: the FileType given to the type bits; there is no error branch.
FileTypeOf(kind) ==
  CASE kind = "file" -> "RegularFile"
    [] kind = "dir" -> "Directory"
    [] kind = "symlink" -> "Symlink"
    [] OTHER -> "Unknown"

StatErr == [ok |-> FALSE, kind |-> "none"]
StatOk(kind) == [ok |-> TRUE, kind |-> kind]

\* VfsImplA::stat / statsync on an object whose metadata call sees `kind`
\* ("absent": the metadata call fails).
stat(kind) == IF kind = "absent" THEN StatErr ELSE StatOk(FileTypeOf(kind))

\* fs.rs TryFrom<(S, Metadata)> for FileMetadata, as used by read_metadata:
\* `bail!("unknown file type")` for anything but file, directory, symlink.
FileMetadataFrom(kind) ==
  IF kind = "absent" THEN StatErr
  ELSE IF kind = "file" THEN StatOk("RegularFile")
  ELSE IF kind = "dir" THEN StatOk("Directory")
  ELSE IF kind = "symlink" THEN StatOk("Link")
  ELSE StatErr

\* What metadata() (following symlinks) sees for an entry.
FollowedKind(t) ==
  IF t \in {"ioerr", "staterr", "link_dead"} THEN "absent" ELSE TargetKind(t)

\* File names: the name of the i-th directory entry, and the file name of
\* the canonical path its symlink leads to.
EntryName(i) == [of |-> "entry", idx |-> i]
TargetName(i) == [of |-> "target", idx |-> i]

\* A listed entry: position in the directory, what it is on the host, the
\* kind it is listed as, and the name it is listed under (the entry's own).
Listed(i, t, kind) ==
  [idx |-> i, tag |-> t, kind |-> kind, name |-> EntryName(i)]

\* The loop of listdirsync with the guard off by one (`n <= limit`).
RECURSIVE ListLoopOffByOne(_, _, _, _, _)
ListLoopOffByOne(d, limit, n, i, acc) ==
  IF limit # NoLimit /\ ~(n <= limit) THEN [n |-> n, i |-> i, entries |-> acc]
  ELSE IF i > Len(d) THEN [n |-> n + 1, i |-> i, entries |-> acc]
  ELSE IF d[i] \in {"ioerr", "staterr"}
    THEN ListLoopOffByOne(d, limit, n + 1, i + 1, acc)
  ELSE ListLoopOffByOne(d, limit, n + 1, i + 1,
                Append(acc, Listed(i, d[i], FileTypeOf(NativeKind(d[i])))))

\* The loop of VfsImplA::listdirsync: n counts the iterations, i is the next
\* entry read_dir will yield.
RECURSIVE ListLoop(_, _, _, _, _)
ListLoop(d, limit, n, i, acc) ==
  IF limit # NoLimit /\ ~(n < limit) THEN [n |-> n, i |-> i, entries |-> acc]
  ELSE IF i > Len(d) THEN [n |-> n + 1, i |-> i, entries |-> acc]
  ELSE IF d[i] \in {"ioerr", "staterr"}
    THEN ListLoop(d, limit, n + 1, i + 1, acc)
  ELSE ListLoop(d, limit, n + 1, i + 1,
                Append(acc, Listed(i, d[i], FileTypeOf(NativeKind(d[i])))))

ListResult(by, limit, truncated, entries) ==
  [by |-> by, limit |-> limit, truncated |-> truncated, entries |-> entries,
   err |-> FALSE]
NoListing == ListResult("nobody", NoLimit, FALSE, <<>>)

\* `read_dir(path)?` at the head of every listing function: when the
\* directory cannot be opened the function returns the error, else it goes
\* on to make its listing.
read_dir(opens, listing) ==
  IF opens THEN listing
  ELSE [ListResult(listing.by, listing.limit, FALSE, <<>>) EXCEPT !.err = TRUE]

\* VfsImplA::listdirsync(path, limit).
listdirsync(d, limit) ==
  LET r == ListLoop(d, limit, 0, 1, <<>>)
      truncated == r.i <= Len(d) \/ (limit # NoLimit /\ r.n >= limit)
  IN ListResult("listdirsync", limit, truncated, r.entries)

\* domain.rs dirlistjson: what becomes of one entry listdirsync returned.
\* A symlink is canonicalized and its target stat'ed; the canonical path is
\* not compared with the root. "skip": the entry is left out.
JsonKind(e) ==
  IF e.kind = "Symlink"
    THEN IF ~CanonOk(e.tag) THEN "skip"
         ELSE LET metadata == stat(FollowedKind(e.tag))
              IN IF ~metadata.ok THEN "skip"
                 ELSE IF metadata.kind = "RegularFile" THEN "file"
                 ELSE IF metadata.kind = "Directory" THEN "dir"
                 ELSE "skip"
  ELSE IF e.kind = "RegularFile" THEN "file"
  ELSE IF e.kind = "Directory" THEN "dir"
  ELSE "skip"

RECURSIVE JsonEntries(_)
JsonEntries(entries) ==
  IF entries = <<>> THEN <<>>
  ELSE LET e == Head(entries)
           k == JsonKind(e)
       IN (IF k = "skip" THEN <<>> ELSE <<Listed(e.idx, e.tag, k)>>)
            \o JsonEntries(Tail(entries))

\* domain.rs dirlistjson::<N>: listdirsync(path, Some(N)), then the entries
\* sorted into files and directories. (Every entry of the model has a
\* name and a modification time; the final shuffle is left out.)
dirlistjson(d, limit) ==
  LET r == listdirsync(d, limit)
  IN ListResult("dirlistjson", limit, r.truncated, JsonEntries(r.entries))

\* domainprim.rs dirlist: what becomes of one entry. pathresolve on the
\* entry's path canonicalizes it and checks the root prefix; the metadata
\* is that of the entry itself (DirEntry::metadata does not follow).
DirlistKind(t) ==
  IF t = "ioerr" THEN "skip"
  ELSE IF ~CanonOk(t) \/ ~CanonInRoot(t) THEN "skip"
  ELSE IF t = "staterr" THEN "skip"
  ELSE IF NativeKind(t) = "dir" THEN "dir"
  ELSE IF NativeKind(t) = "file" THEN "file"
  ELSE "skip"

\* The loop of dirlist::<N>.
RECURSIVE DirlistLoop(_, _, _, _, _)
DirlistLoop(d, limit, n, i, acc) ==
  IF ~(n < limit) THEN [n |-> n, i |-> i, entries |-> acc]
  ELSE IF i > Len(d) THEN [n |-> n + 1, i |-> i, entries |-> acc]
  ELSE LET k == DirlistKind(d[i])
       IN DirlistLoop(d, limit, n + 1, i + 1,
                      IF k = "skip" THEN acc ELSE Append(acc, Listed(i, d[i], k)))

\* domainprim.rs dirlist::<N>(path, parent_path). (The final sort by
\* modification time is left out.)
dirlist(d, limit) ==
  LET r == DirlistLoop(d, limit, 0, 1, <<>>)
  IN ListResult("dirlist", limit, r.n = limit, r.entries)

\* fs.rs list_directory: the stream made by try_stream!. A `?` that fails
\* (the entry, its metadata, or the conversion of an unknown file type)
\* yields the error and ends the stream; api_list skips the error item.
RECURSIVE MetadataStream(_, _)
MetadataStream(d, i) ==
  IF i > Len(d) THEN <<>>
  ELSE IF d[i] \in {"ioerr", "staterr"} THEN <<>>
  ELSE LET md == FileMetadataFrom(NativeKind(d[i]))
       IN IF ~md.ok THEN <<>>
          ELSE <<Listed(i, d[i], md.kind)>> \o MetadataStream(d, i + 1)

\* api.rs follow_get_md: canonicalize, strip the chroot prefix (which fails
\* outside the chroot), then read_metadata on the stripped path. The stripped
\* path is relative, and read_metadata hands it to tokio::fs::metadata as it
\* is: it is found only when the process runs inside the chroot (`cwd`).
follow_get_md(t, cwd) ==
  IF ~CanonOk(t) THEN StatErr
  ELSE IF ~CanonInRoot(t) THEN StatErr
  ELSE IF ~cwd THEN StatErr
  ELSE FileMetadataFrom(FollowedKind(t))

\* api.rs api_list: what becomes of one item of the stream.
ApiKind(e, cwd) ==
  IF e.kind = "RegularFile" THEN "file"
  ELSE IF e.kind = "Directory" THEN "dir"
  ELSE LET md == follow_get_md(e.tag, cwd)
       IN IF ~md.ok THEN "skip"
          ELSE IF md.kind = "RegularFile" THEN "file"
          ELSE IF md.kind = "Directory" THEN "dir"
          ELSE "skip"

\* api.rs api_list: the name serfmeta prints. For a followed entry `md` has
\* been rebound to the result of follow_get_md, whose file_name is taken by
\* read_metadata from the canonical path of the target.
ApiName(e) ==
  IF e.kind \in {"RegularFile", "Directory"} THEN EntryName(e.idx)
  ELSE TargetName(e.idx)

RECURSIVE ApiEntries(_, _)
ApiEntries(entries, cwd) ==
  IF entries = <<>> THEN <<>>
  ELSE LET e == Head(entries)
           k == ApiKind(e, cwd)
       IN (IF k = "skip" THEN <<>>
           ELSE <<[Listed(e.idx, e.tag, k) EXCEPT !.name = ApiName(e)]>>)
            \o ApiEntries(Tail(entries), cwd)

\* api.rs api_list: no limit and no truncated flag.
api_list(d, cwd) ==
  ListResult("api_list", NoLimit, FALSE, ApiEntries(MetadataStream(d, 1), cwd))

\* A metadata probe of the object behind entry t, by VfsImplA::stat.
ProbeStat(t) ==
  LET r == stat(FollowedKind(t))
  IN ListResult("stat", NoLimit, FALSE,
                IF r.ok THEN <<Listed(0, t, r.kind)>> ELSE <<>>)

\* The same probe by fs.rs read_metadata.
ProbeReadMetadata(t) ==
  LET r == FileMetadataFrom(FollowedKind(t))
  IN ListResult("read_metadata", NoLimit, FALSE,
                IF r.ok THEN <<Listed(0, t, r.kind)>> ELSE <<>>)

\* ------------------------------------------------------ cache: data model
\* The cache keys (RealPath / virt_path values) the requests are about.
Keys == {"k1"}

\* Vec<u8> of a thumbnail is modelled by the content version it was made from.
NoEntry == [has |-> FALSE, ts |-> NoTime, dat |-> 0]
Entry(ts, dat) == [has |-> TRUE, ts |-> ts, dat |-> dat]

\* CacheMessage::Insert / Msg::Ins. `stamp` is the `now` field of Msg::Ins
\* (thcache.rs); the older generations carry no timestamp in the message.
InsMsg(k, dat, stamp) ==
  [type |-> "Ins", key |-> k, dat |-> dat, stamp |-> stamp,
   from |-> NoClient, rx |-> FALSE]

\* CacheMessage::Get / Msg::Get. `rx` tells whether the receiving half of the
\* one-shot channel created by the caller still exists.
GetMsg(k, c) ==
  [type |-> "Get", key |-> k, dat |-> 0, stamp |-> NoTime,
   from |-> c, rx |-> TRUE]

NoMsg == [type |-> "None", key |-> "k1", dat |-> 0, stamp |-> NoTime,
          from |-> NoClient, rx |-> FALSE]

\* One-shot channel states seen by the request task.
OneshotIdle == [st |-> "none", hit |-> FALSE, ts |-> NoTime, dat |-> 0]
OneshotPending == [st |-> "pending", hit |-> FALSE, ts |-> NoTime, dat |-> 0]
OneshotClosed == [st |-> "closed", hit |-> FALSE, ts |-> NoTime, dat |-> 0]
\* Some(CacheResponse { lastmod, thumbnail }) or None.
OneshotReplied(hit, e) ==
  [st |-> "replied", hit |-> hit, ts |-> IF hit THEN e.ts ELSE NoTime,
   dat |-> IF hit THEN e.dat ELSE 0]

\* ------------------------------------------------- cache: pure decisions
\* Row of the decision table the Get falls in, given the map entry and what
\* stat reports for the key.
Row(e, f) ==
  IF ~e.has THEN "noentry"
  ELSE IF ~f.exists THEN "staterr"
  ELSE IF f.mtime = NoTime THEN "nomtime"
  ELSE IF f.mtime > e.ts THEN "newer"
  ELSE "notnewer"

\* Mutant of FreshByGt: the comparison the wrong way round.
FreshByGtSwapped(flastmod, clastmod) == ~(flastmod < clastmod)

\* cachethumb.rs / main.rs: `if flastmod > clastmod { stale } else { fresh }`
FreshByGt(flastmod, clastmod) == ~(flastmod > clastmod)

\* thcache.rs: `fslmo.unwrap() < ca.unwrap().0`
FreshByLt(fslmo, clastmod) == fslmo < clastmod

\* Whether the Get arm answers Some(..) for entry e and stat result f.
GetHits(im, e, f) ==
  IF im = "thcache"
    THEN f.exists /\ f.mtime # NoTime /\ e.has /\ FreshByLt(f.mtime, e.ts)
    ELSE e.has /\ f.exists /\ f.mtime # NoTime /\ FreshByGt(f.mtime, e.ts)

\* Timestamp stored by the Insert arm: the message's `now` (thcache.rs) or
\* the actor's clock when it processes the message (cachethumb.rs, main.rs).
InsertStamp(im, m, clock) == IF im = "thcache" THEN m.stamp ELSE clock

\* Timestamp a caller puts into the message in `ins`.
InsStampAtCaller(im, clock) == IF im = "thcache" THEN clock ELSE NoTime

\* Mutant of MapAfterInsert: `entry(k).or_insert(..)`, an existing entry stays.
MapAfterInsertKeepsOld(m, k, ts, dat) ==
  IF m[k].has THEN m ELSE [m EXCEPT ![k] = Entry(ts, dat)]

\* `cache.insert(path, (now, data))`: overwrite unconditionally.
MapAfterInsert(m, k, ts, dat) == [m EXCEPT ![k] = Entry(ts, dat)]

\* Mutant of MapAfterGet: the Get arm evicts the entry it looked at.
MapAfterGetEvicts(m, k) == [m EXCEPT ![k] = NoEntry]

\* The Get arm only reads the map (contains_key, get); it writes nothing.
MapAfterGet(m, k) == m

\* `reply_to.send(..).unwrap()` panics on a dropped receiver;
\* `let _ = rpy.send(..)` discards the error.
ReplyPanics(im, m) == im \in {"main", "cachethumb"} /\ ~m.rx

\* Mpsc::get: `self.0.send(..).unwrap()` panics when the channel is closed;
\* CacheProcess::get ignores the error.
GetSendPanics(im) == im \in {"main", "cachethumb"}

\* Mpsc::get: `rx.await.unwrap()` (main.rs) panics when the reply sender is
\* dropped unanswered; `rx.await.ok().flatten()` gives None.
GetRecvPanics(im) == im = "main"

\* Mpsc::ins: `.send(..).unwrap()` (main.rs) panics when the channel is
\* closed; `.unwrap_or_default()` and `let _ =` swallow the error.
InsSendPanics(im) == im = "main"

ChannelOpen == apc \in {"recv", "stat"}


\* ------------------------------------------------------- cache: history
NoPut == [valid |-> FALSE, key |-> "k1", dat |-> 0]

\* A put for key k by task c supersedes the other tasks' puts for k.
PutAfterIns(c, k, dat) ==
  [d \in Clients |->
     IF d = c THEN [valid |-> TRUE, key |-> k, dat |-> dat]
     ELSE IF put[d].key = k THEN NoPut ELSE put[d]]

\* A change of the file behind k ends every put-then-get window on k.
PutAfterFs(k) == [d \in Clients |-> IF put[d].key = k THEN NoPut ELSE put[d]]

\* ------------------------------------------------------------ cache: Init
CacheInit ==
  /\ impl \in Impls
  /\ now = 0
  /\ file = [k \in Keys |-> [exists |-> TRUE, ver |-> 0, mtime |-> 0]]
  /\ cache = [k \in Keys |-> NoEntry]
  /\ queue = <<>>
  /\ apc = "recv"
  /\ acur = NoMsg
  /\ senderAlive = TRUE
  /\ cpc = [c \in Clients |-> "idle"]
  /\ ckey = [c \in Clients |-> "k1"]
  /\ cbuf = [c \in Clients |-> 0]
  /\ oneshot = [c \in Clients |-> OneshotIdle]
  /\ cnow = [c \in Clients |-> NoTime]
  /\ put = [c \in Clients |-> NoPut]

\* ------------------------------------------------- environment: clock, fs
\* Wall-clock time passes.
Tick ==
  /\ now < MaxTime
  /\ now' = now + 1
  /\ UNCHANGED cnow
  /\ UNCHANGED <<impl, file, cache, queue, apc, acur, senderAlive, cpc, ckey,
                 cbuf, oneshot, put>>

\* Somebody rewrites the file: new content, modification time = now.
FsWrite(k) ==
  /\ file[k].ver < MaxVer
  /\ file' = [file EXCEPT ![k] = [exists |-> TRUE, ver |-> @.ver + 1, mtime |-> now]]
  /\ put' = PutAfterFs(k)
  /\ UNCHANGED cnow
  /\ UNCHANGED <<impl, now, cache, queue, apc, acur, senderAlive, cpc, ckey,
                 cbuf, oneshot>>

\* The file is removed: stat (tokio::fs::metadata) now fails.
FsRemove(k) ==
  /\ file[k].exists
  /\ file' = [file EXCEPT ![k] = [exists |-> FALSE, ver |-> @.ver, mtime |-> NoTime]]
  /\ put' = PutAfterFs(k)
  /\ UNCHANGED cnow
  /\ UNCHANGED <<impl, now, cache, queue, apc, acur, senderAlive, cpc, ckey,
                 cbuf, oneshot>>

\* The file's modification time becomes unavailable (`modified()` fails or
\* systime2datetime gives None for a time before the epoch).
FsNoMtime(k) ==
  /\ file[k].exists
  /\ file[k].mtime # NoTime
  /\ file' = [file EXCEPT ![k] = [@ EXCEPT !.mtime = NoTime]]
  /\ put' = PutAfterFs(k)
  /\ UNCHANGED cnow
  /\ UNCHANGED <<impl, now, cache, queue, apc, acur, senderAlive, cpc, ckey,
                 cbuf, oneshot>>


\* --------------------------------------------- request task (serve_thumb)
\* `cache.get(&userpathreal)`: create the one-shot channel and send Get.
\* On a closed channel the send fails: unwrap panics, or (thcache.rs) the
\* error is ignored, the reply sender is dropped with the message and
\* `rx.await.ok().flatten()` gives None at once.
ClientGet(c, k) ==
  /\ cpc[c] = "idle"
  /\ senderAlive
  /\ ckey' = [ckey EXCEPT ![c] = k]
  /\ IF ChannelOpen
       THEN /\ Len(queue) < MaxQueue
            /\ queue' = Append(queue, GetMsg(k, c))
            /\ oneshot' = [oneshot EXCEPT ![c] = OneshotPending]
            /\ cpc' = [cpc EXCEPT ![c] = "waiting"]
       ELSE /\ cpc' = [cpc EXCEPT ![c] = IF GetSendPanics(impl) THEN "getpanic" ELSE "gen"]
            /\ UNCHANGED <<queue, oneshot>>
  /\ UNCHANGED cnow
  /\ UNCHANGED <<impl, now, file, cache, apc, acur, senderAlive, cbuf, put>>

\* `rx.await`: the reply arrived, or the reply sender was dropped unanswered.
ClientRecv(c) ==
  /\ cpc[c] = "waiting"
  /\ oneshot[c].st \in {"replied", "closed"}
  /\ LET o == oneshot[c]
         panics == o.st = "closed" /\ GetRecvPanics(impl)
     IN /\ cpc' = [cpc EXCEPT ![c] =
                     IF panics THEN "getpanic" ELSE IF o.hit THEN "respond" ELSE "gen"]
        /\ cbuf' = [cbuf EXCEPT ![c] = o.dat]
  /\ oneshot' = [oneshot EXCEPT ![c] = OneshotIdle]
  /\ UNCHANGED cnow
  /\ UNCHANGED <<impl, now, file, cache, queue, apc, acur, senderAlive, ckey,
                 put>>

\* The fresh thumbnail came back from the cache: build the response from it.
ClientRespond(c) ==
  /\ cpc[c] = "respond"
  /\ cpc' = [cpc EXCEPT ![c] = "idle"]
  /\ cbuf' = [cbuf EXCEPT ![c] = 0]
  /\ UNCHANGED cnow
  /\ UNCHANGED <<impl, now, file, cache, queue, apc, acur, senderAlive, ckey,
                 oneshot, put>>

\* The request is cancelled while it awaits the reply (connection dropped):
\* the future is dropped and with it the one-shot receiver.
ClientAbandon(c) ==
  /\ cpc[c] = "waiting"
  /\ cpc' = [cpc EXCEPT ![c] = "idle"]
  /\ oneshot' = [oneshot EXCEPT ![c] = OneshotIdle]
  /\ queue' = [i \in 1..Len(queue) |->
                 IF queue[i].type = "Get" /\ queue[i].from = c /\ queue[i].rx
                   THEN [queue[i] EXCEPT !.rx = FALSE] ELSE queue[i]]
  /\ acur' = IF acur.type = "Get" /\ acur.from = c
               THEN [acur EXCEPT !.rx = FALSE] ELSE acur
  /\ UNCHANGED cnow
  /\ UNCHANGED <<impl, now, file, cache, apc, senderAlive, ckey, cbuf,
                 put>>

\* gen_thumb: open and read the file, make the thumbnail; on an error the
\* request answers with the generic icon and does not touch the cache.
ClientGen(c) ==
  /\ cpc[c] = "gen"
  /\ IF file[ckey[c]].exists
       THEN /\ cbuf' = [cbuf EXCEPT ![c] = file[ckey[c]].ver]
            /\ cpc' = [cpc EXCEPT ![c] = "ins"]
       ELSE /\ cpc' = [cpc EXCEPT ![c] = "idle"]
            /\ UNCHANGED cbuf
  /\ UNCHANGED cnow
  /\ UNCHANGED <<impl, now, file, cache, queue, apc, acur, senderAlive, ckey,
                 oneshot, put>>

\* CacheProcess::ins (thcache.rs) reads the clock, then sends: two steps of
\* a task that runs beside the other tasks on the multi-threaded runtime.
ClientInsNow(c) ==
  /\ impl = "thcache"
  /\ cpc[c] = "ins"
  /\ cpc' = [cpc EXCEPT ![c] = "inssend"]
  /\ cnow' = [cnow EXCEPT ![c] = now]
  /\ UNCHANGED <<impl, now, file, cache, queue, apc, acur, senderAlive, ckey,
                 cbuf, oneshot, put>>

\* `cache.ins(&userpathreal, thumb)`: send Insert, never wait.
ClientIns(c) ==
  /\ cpc[c] = (IF impl = "thcache" THEN "inssend" ELSE "ins")
  /\ IF ChannelOpen
       THEN /\ Len(queue) < MaxQueue
            /\ queue' = Append(queue,
                               InsMsg(ckey[c], cbuf[c], InsStampAtCaller(impl, cnow[c])))
            /\ put' = PutAfterIns(c, ckey[c], cbuf[c])
            /\ cpc' = [cpc EXCEPT ![c] = "idle"]
       ELSE /\ cpc' = [cpc EXCEPT ![c] = IF InsSendPanics(impl) THEN "inspanic" ELSE "idle"]
            /\ UNCHANGED <<queue, put>>
  /\ cbuf' = [cbuf EXCEPT ![c] = 0]
  /\ cnow' = [cnow EXCEPT ![c] = NoTime]
  /\ UNCHANGED <<impl, now, file, cache, apc, acur, senderAlive, ckey, oneshot>>

\* A panicked request task is gone; the server takes the next request.
ClientRestart(c) ==
  /\ cpc[c] \in {"getpanic", "inspanic"}
  /\ cpc' = [cpc EXCEPT ![c] = "idle"]
  /\ UNCHANGED cnow
  /\ UNCHANGED <<impl, now, file, cache, queue, apc, acur, senderAlive, ckey,
                 cbuf, oneshot, put>>

\* The owner drops the Mpsc / CacheProcess handle, the only sender.
HandleDrop ==
  /\ senderAlive
  /\ \A c \in Clients : cpc[c] = "idle"
  /\ senderAlive' = FALSE
  /\ UNCHANGED cnow
  /\ UNCHANGED <<impl, now, file, cache, queue, apc, acur, cpc, ckey, cbuf,
                 oneshot, put>>

\* ------------------------------------------------------------ cache actor
\* The end of the Get arm: decide, reply on the one-shot channel, go on.
\* A panic unwinds the task: the receiver is dropped, and with it every
\* queued message and the reply senders inside them.
FinishGet(m, rest) ==
  LET e == cache[m.key]
      f == file[m.key]
      hit == GetHits(impl, e, f)
  IN /\ cache' = MapAfterGet(cache, m.key)
     /\ acur' = NoMsg
     /\ IF ReplyPanics(impl, m)
          THEN /\ apc' = "panicked"
               /\ queue' = <<>>
               /\ oneshot' = [c \in Clients |->
                                IF oneshot[c].st = "pending"
                                  THEN OneshotClosed ELSE oneshot[c]]
          ELSE /\ apc' = "recv"
               /\ queue' = rest
               /\ oneshot' = IF m.rx
                               THEN [oneshot EXCEPT ![m.from] = OneshotReplied(hit, e)]
                               ELSE oneshot

\* Mutant of ActorRecv: the receive takes the newest message of the queue.
ActorRecvNewestFirst ==
  /\ apc = "recv"
  /\ queue # <<>>
  /\ LET m == queue[Len(queue)]
         rest == SubSeq(queue, 1, Len(queue) - 1)
     IN IF m.type = "Ins"
          THEN /\ cache' = MapAfterInsert(cache, m.key, InsertStamp(impl, m, now), m.dat)
               /\ queue' = rest
               /\ UNCHANGED <<apc, acur, oneshot>>
          ELSE IF impl # "thcache" /\ ~cache[m.key].has
            THEN FinishGet(m, rest)
            ELSE /\ apc' = "stat"
                 /\ acur' = m
                 /\ queue' = rest
                 /\ UNCHANGED <<cache, oneshot>>
  /\ UNCHANGED cnow
  /\ UNCHANGED <<impl, now, file, senderAlive, cpc, ckey, cbuf, put>>

\* `rx.recv().await` yields a message. Insert is handled at once. For Get,
\* cachethumb.rs / main.rs answer None at once when the key is absent and
\* otherwise go on to stat; thcache.rs stats first in every case.
ActorRecv ==
  /\ apc = "recv"
  /\ queue # <<>>
  /\ LET m == Head(queue)
         rest == Tail(queue)
     IN IF m.type = "Ins"
          THEN /\ cache' = MapAfterInsert(cache, m.key, InsertStamp(impl, m, now), m.dat)
               /\ queue' = rest
               /\ UNCHANGED <<apc, acur, oneshot>>
          ELSE IF impl # "thcache" /\ ~cache[m.key].has
            THEN FinishGet(m, rest)
            ELSE /\ apc' = "stat"
                 /\ acur' = m
                 /\ queue' = rest
                 /\ UNCHANGED <<cache, oneshot>>
  /\ UNCHANGED cnow
  /\ UNCHANGED <<impl, now, file, senderAlive, cpc, ckey, cbuf, put>>

\* Mutant of ActorStat: while the stat is pending the task takes an Insert
\* that waits in the queue (a select over the channel and the stat).
ActorStatTakesInsert ==
  /\ apc = "stat"
  /\ IF queue # <<>> /\ Head(queue).type = "Ins"
       THEN /\ cache' = MapAfterInsert(cache, Head(queue).key,
                                       InsertStamp(impl, Head(queue), now),
                                       Head(queue).dat)
            /\ queue' = Tail(queue)
            /\ UNCHANGED <<apc, acur, oneshot>>
       ELSE FinishGet(acur, queue)
  /\ UNCHANGED cnow
  /\ UNCHANGED <<impl, now, file, senderAlive, cpc, ckey, cbuf, put>>

\* The stat await completes; the rest of the Get arm runs.
ActorStat ==
  /\ apc = "stat"
  /\ FinishGet(acur, queue)
  /\ UNCHANGED cnow
  /\ UNCHANGED <<impl, now, file, senderAlive, cpc, ckey, cbuf, put>>

\* `rx.recv()` yields None: every sender is gone and the queue is drained.
ActorExit ==
  /\ apc = "recv"
  /\ queue = <<>>
  /\ ~senderAlive
  /\ apc' = "exited"
  /\ UNCHANGED cnow
  /\ UNCHANGED <<impl, now, file, cache, queue, acur, senderAlive, cpc, ckey,
                 cbuf, oneshot, put>>

\* ------------------------------------------------------ cache: the system
CacheNext ==
  \/ Tick
  \/ \E k \in Keys : FsWrite(k)
  \/ \E k \in Keys : FsRemove(k)
  \/ \E k \in Keys : FsNoMtime(k)
  \/ \E c \in Clients, k \in Keys : ClientGet(c, k)
  \/ \E c \in Clients : ClientRecv(c)
  \/ \E c \in Clients : ClientRespond(c)
  \/ \E c \in Clients : ClientAbandon(c)
  \/ \E c \in Clients : ClientGen(c)
  \/ \E c \in Clients : ClientInsNow(c)
  \/ \E c \in Clients : ClientIns(c)
  \/ \E c \in Clients : ClientRestart(c)
  \/ HandleDrop
  \/ ActorRecv
  \/ ActorStat
  \/ ActorExit

PathInit ==
  /\ vpath = <<>>
  /\ fsl = "none"
  /\ fse = FALSE
  /\ rres = NoOutcome
  /\ ragain = NoOutcome

ListInit ==
  /\ ldir = <<>>
  /\ lres = NoListing
  /\ lopen = TRUE

InitCache == CacheInit /\ PathInit /\ ListInit

NextCache == CacheNext /\ UNCHANGED <<pathVars, listVars>>

SpecCache == InitCache /\ [][NextCache]_vars

\* ------------------------------------------------------ resolver: actions
\* A request with some client path arrives at pathresolve.
RequestResolve ==
  /\ rres = NoOutcome
  /\ \E p \in ClientPaths :
       /\ vpath' = p
       /\ rres' = pathresolve(fsl, fse, p)
  /\ UNCHANGED <<fsl, fse, ragain>>

\* A request with some client path arrives at the middleware of api.rs.
RequestGuard ==
  /\ rres = NoOutcome
  /\ \E p \in ClientPaths :
       /\ vpath' = p
       /\ rres' = mw_guard_virt_path(fsl, fse, p)
  /\ UNCHANGED <<fsl, fse, ragain>>

\* The validator is run on some path.
RequestValidate ==
  /\ rres = NoOutcome
  /\ \E p \in ClientPaths :
       /\ vpath' = p
       /\ rres' = Validate(p)
  /\ UNCHANGED <<fsl, fse, ragain>>

\* The request in hand is resolved a second time by the same handler, the
\* host's files being what they were at the first call.
RequestRepeat ==
  /\ rres.by \in {"pathresolve", "mw_guard_virt_path"}
  /\ ragain = NoOutcome
  /\ ragain' = IF rres.by = "pathresolve"
                 THEN pathresolve(fsl, fse, vpath)
                 ELSE mw_guard_virt_path(fsl, fse, vpath)
  /\ UNCHANGED <<vpath, fsl, fse, rres>>

\* The request is answered and forgotten.
RequestDone ==
  /\ rres # NoOutcome
  /\ vpath' = <<>>
  /\ rres' = NoOutcome
  /\ ragain' = NoOutcome
  /\ UNCHANGED <<fsl, fse>>

\* Somebody on the host re-points, creates or removes the symlink /r/l.
FsRelink(l) ==
  /\ rres = NoOutcome
  /\ l # fsl
  /\ fsl' = l
  /\ UNCHANGED <<vpath, fse, rres, ragain>>

\* Somebody on the host creates or removes the file /e/a.
FsToggleOutside ==
  /\ rres = NoOutcome
  /\ fse' = ~fse
  /\ UNCHANGED <<vpath, fsl, rres, ragain>>

PathNext ==
  \/ RequestResolve
  \/ RequestGuard
  \/ RequestValidate
  \/ RequestRepeat
  \/ RequestDone
  \/ \E l \in LinkStates : FsRelink(l)
  \/ FsToggleOutside

InitPath == CacheInit /\ impl = "thcache" /\ PathInit /\ ListInit

NextPath == PathNext /\ UNCHANGED <<cacheVars, listVars>>

SpecPath == InitPath /\ [][NextPath]_vars

\* ------------------------------------------------------- listing: actions
\* A listing request served by domain.rs (listdirsync, then dirlistjson).
RequestListdirsync ==
  /\ lres = NoListing
  /\ \E limit \in Limits \cup {NoLimit} : lres' = read_dir(lopen, listdirsync(ldir, limit))
  /\ UNCHANGED <<ldir, lopen>>

RequestDirlistjson ==
  /\ lres = NoListing
  /\ \E limit \in Limits : lres' = read_dir(lopen, dirlistjson(ldir, limit))
  /\ UNCHANGED <<ldir, lopen>>

\* A listing request served by main.rs through domainprim.rs.
RequestDirlist ==
  /\ lres = NoListing
  /\ \E limit \in Limits : lres' = read_dir(lopen, dirlist(ldir, limit))
  /\ UNCHANGED <<ldir, lopen>>

\* A listing request served by api.rs.
RequestApiList ==
  /\ lres = NoListing
  /\ \E cwd \in BOOLEAN : lres' = read_dir(lopen, api_list(ldir, cwd))
  /\ UNCHANGED <<ldir, lopen>>

\* A metadata probe of one object of the directory.
RequestStat ==
  /\ lres = NoListing
  /\ \E i \in 1..Len(ldir) : lres' = ProbeStat(ldir[i])
  /\ UNCHANGED <<ldir, lopen>>

RequestReadMetadata ==
  /\ lres = NoListing
  /\ \E i \in 1..Len(ldir) : lres' = ProbeReadMetadata(ldir[i])
  /\ UNCHANGED <<ldir, lopen>>

\* The answer is sent and forgotten.
ListDone ==
  /\ lres # NoListing
  /\ lres' = NoListing
  /\ UNCHANGED <<ldir, lopen>>

\* Somebody on the host adds an entry to the directory.
DirCreate(t) ==
  /\ lres = NoListing
  /\ Len(ldir) < MaxDirLen
  /\ ldir' = Append(ldir, t)
  /\ UNCHANGED <<lres, lopen>>

\* Somebody on the host removes the first entry of the directory.
DirUnlink ==
  /\ lres = NoListing
  /\ ldir # <<>>
  /\ ldir' = Tail(ldir)
  /\ UNCHANGED <<lres, lopen>>

\* Somebody on the host takes away, or gives back, the permission to read
\* the directory.
DirChmod ==
  /\ lres = NoListing
  /\ lopen' = ~lopen
  /\ UNCHANGED <<ldir, lres>>

ListNext ==
  \/ RequestListdirsync
  \/ RequestDirlistjson
  \/ RequestDirlist
  \/ RequestApiList
  \/ RequestStat
  \/ RequestReadMetadata
  \/ ListDone
  \/ \E t \in EntryTags : DirCreate(t)
  \/ DirUnlink
  \/ DirChmod

InitList == CacheInit /\ impl = "thcache" /\ PathInit /\ ListInit

NextList == ListNext /\ UNCHANGED <<cacheVars, pathVars>>

SpecList == InitList /\ [][NextList]_vars

\* ----------------------------------------------------- validator: actions
\* bad_path1 is run on a path made of the characters of reserved names.
RequestValidateName ==
  /\ rres = NoOutcome
  /\ \E p \in NamePaths :
       /\ vpath' = p
       /\ rres' = Validate(p)
  /\ UNCHANGED <<fsl, fse, ragain>>

\* pathresolve is called with such a path.
RequestResolveName ==
  /\ rres = NoOutcome
  /\ \E p \in NamePaths :
       /\ vpath' = p
       /\ rres' = pathresolve(fsl, fse, p)
  /\ UNCHANGED <<fsl, fse, ragain>>

\* mw_guard_virt_path is called with such a path.
RequestGuardName ==
  /\ rres = NoOutcome
  /\ \E p \in NamePaths :
       /\ vpath' = p
       /\ rres' = mw_guard_virt_path(fsl, fse, p)
  /\ UNCHANGED <<fsl, fse, ragain>>

ValidatorNext ==
  \/ RequestValidateName
  \/ RequestResolveName
  \/ RequestGuardName
  \/ RequestDone

InitValidator == CacheInit /\ impl = "thcache" /\ PathInit /\ ListInit

NextValidator == ValidatorNext /\ UNCHANGED <<cacheVars, listVars>>

SpecValidator == InitValidator /\ [][NextValidator]_vars


\* ================================================= claims about the cache
\* The step answers task c's Get on its one-shot channel.
Answers(c) == oneshot[c].st = "pending" /\ oneshot'[c].st = "replied"

\* The step is the actor finishing the Get arm for message m.
GetInHand ==
  IF apc = "stat" THEN acur
  ELSE IF apc = "recv" /\ queue # <<>> /\ Head(queue).type = "Get"
    THEN Head(queue) ELSE NoMsg
FinishesGet ==
  /\ GetInHand.type = "Get"
  /\ apc' # "stat"
  /\ \/ apc' = "panicked"
     \/ apc = "stat" /\ apc' = "recv"
     \/ apc = "recv" /\ queue' = Tail(queue)

\* C2: a Get that replies hit never returns bytes made from file content
\* older than the content the file has when the Get is answered.
C2_NeverServesStale ==
  [][\A c \in Clients :
       (Answers(c) /\ oneshot'[c].hit) => oneshot'[c].dat = file'[ckey[c]].ver]_vars

\* C3: whenever the actor replies hit, the modification time it has just read
\* for the key is not newer than the timestamp stored with the key's entry.
C3_HitOnlyIfMtimeNotNewer ==
  [][\A c \in Clients :
       (Answers(c) /\ oneshot'[c].hit) =>
         /\ file[ckey[c]].exists
         /\ file[ckey[c]].mtime # NoTime
         /\ file[ckey[c]].mtime <= cache[ckey[c]].ts
         /\ oneshot'[c].ts = cache[ckey[c]].ts]_vars

\* C3 witness: a request task holds a hit reply.
C3_Witness == \E c \in Clients : oneshot[c].st = "replied" /\ oneshot[c].hit

ReturnsUnanswered(c) ==
  /\ cpc'[c] \in {"gen", "getpanic"}
  /\ \/ cpc[c] = "idle"
     \/ cpc[c] = "waiting" /\ oneshot[c].st = "closed"

C5_DroppedReceiverIsNoOp ==
  [][(FinishesGet /\ ~GetInHand.rx) =>
       (apc' = "recv" /\ queue' = (IF apc = "stat" THEN queue ELSE Tail(queue)))]_vars

\* C6: cache_get never panics: a closed channel or a reply sender dropped
\* without an answer gives a miss.
C6_GetFailureIsMiss == \A c \in Clients : cpc[c] # "getpanic"

\* C7: in the rows "no entry", "stat fails" and "no modification time" the
\* actor replies miss and keeps running.
C7_NonHitRowsReplyMiss ==
  [][(FinishesGet /\ Row(cache[GetInHand.key], file[GetInHand.key])
                       \in {"noentry", "staterr", "nomtime"}) =>
       /\ apc' = "recv"
       /\ GetInHand.rx =>
            (oneshot'[GetInHand.from].st = "replied" /\ ~oneshot'[GetInHand.from].hit)]_vars

\* C8: the map changes only in the step in which the actor takes an Insert
\* message off the queue; no Get and no request-task step changes it.
C8_MapChangesOnlyOnInsert ==
  [][cache' # cache =>
       /\ apc = "recv" /\ apc' = "recv"
       /\ queue # <<>> /\ Head(queue).type = "Ins"
       /\ queue' = Tail(queue)
       /\ cache' = [cache EXCEPT ![Head(queue).key] = cache'[Head(queue).key]]
       /\ cache'[Head(queue).key].has
       /\ UNCHANGED <<cpc, oneshot>>]_vars

\* C8 witness: an Insert has put an entry in the map and a Get has been
\* answered afterwards or alongside.
C8_Witness ==
  /\ cache["k1"].has
  /\ \E c \in Clients : oneshot[c].st = "replied"



\* ============================================== claims about the resolver
Resolvers == {"pathresolve", "mw_guard_virt_path"}
UnderRoot(path) == path # <<>> /\ path[1] = "r"
UsesLink(p) == \E i \in 1..Len(Components(p)) : Components(p)[i] = Comp("Normal", <<"l">>)
LinkLeavesRoot == fsl \in {"out", "outfile"}

\* C1: every path a resolver returns is a canonical path that has the root as
\* a prefix; a client path that goes through a symlink whose target lies
\* outside the root is never resolved.
C1_ResolvedIsContained ==
  (rres.by \in Resolvers /\ rres.status = "Ok")
    => /\ UnderRoot(rres.path)
       /\ ~(UsesLink(vpath) /\ LinkLeavesRoot)

\* pathresolve has returned a path for a request that went through the
\* symlink (which pointed inside the root).
C1_Witness ==
  /\ rres.by = "pathresolve"
  /\ rres.status = "Ok"
  /\ UsesLink(vpath)
  /\ fsl = "in"

SameHandler(e) ==
  IF rres.by = "pathresolve" THEN pathresolve(fsl, e, vpath)
  ELSE mw_guard_virt_path(fsl, e, vpath)

\* C9: whatever the reason a resolver fails (validation, nonexistent path,
\* path outside the root, I/O error) the outcome is NotFound, so the same
\* request fails the same way whether or not the file outside the root exists.
C9_FailuresAreUniform ==
  (rres.by \in Resolvers /\ rres.status # "Ok")
    => /\ rres.status = "NotFound"
       /\ SameHandler(~fse).status # "Ok" => SameHandler(~fse).status = rres.status

HasSegment(p, g) == \E i \in 1..Len(SplitSlash(p)) : SplitSlash(p)[i] = g
HasDoubledSeparator(p) == \E i \in 1..(Len(p) - 1) : p[i] = "/" /\ p[i + 1] = "/"

ErrorSkipped(by, t) ==
  \/ t \in {"ioerr", "staterr"}
  \/ by = "dirlist" /\ t \in {"link_dead", "link_out"}

\* The entries a listing leaves out for any reason: dirlist also passes over
\* whatever is, by its own type bits, neither a regular file nor a directory.
Skipped(by, t) ==
  \/ ErrorSkipped(by, t)
  \/ by = "dirlist" /\ t \notin {"file", "dir"}

OverLimit ==
  /\ lopen
  /\ lres.by \in {"listdirsync", "dirlist"}
  /\ lres.limit # NoLimit
  /\ Len(ldir) > lres.limit

C12_StatRejectsUnknown ==
  (lres.by \in {"stat", "read_metadata"}) =>
    \A j \in 1..Len(lres.entries) :
      LET e == lres.entries[j]
      IN /\ e.kind # "Unknown"
         /\ FollowedKind(e.tag) \in {"file", "dir", "symlink"}
         /\ e.kind = "RegularFile" => FollowedKind(e.tag) = "file"
         /\ e.kind = "Directory" => FollowedKind(e.tag) = "dir"


C14_NotNewerIsHit ==
  [][\A c \in Clients :
       (/\ Answers(c)
        /\ cache[ckey[c]].has
        /\ file[ckey[c]].exists
        /\ file[ckey[c]].mtime # NoTime
        /\ file[ckey[c]].mtime <= cache[ckey[c]].ts) =>
         /\ oneshot'[c].hit
         /\ oneshot'[c].ts = cache[ckey[c]].ts
         /\ oneshot'[c].dat = cache[ckey[c]].dat]_vars


\* C15: a directory listing never includes an entry that is a symlink
\* whose resolved target lies outside the root.
C15_NoLinkLeavingRootListed ==
  (lres.by \in {"dirlistjson", "dirlist", "api_list"}) =>
    \A j \in 1..Len(lres.entries) : CanonInRoot(lres.entries[j].tag)


\* ============================================ claims about the validator
UpperCase(ch) ==
  IF ch = "c" THEN "C" ELSE IF ch = "o" THEN "O" ELSE IF ch = "n" THEN "N" ELSE ch

\* The part of a component before its first period, in upper case.
UpperStem(name) ==
  LET stem == BeforeFirstDot(name)
  IN [i \in 1..Len(stem) |-> UpperCase(stem[i])]

\* Some Normal component of the path under validation satisfies Q.
SomeComponent(Q(_)) ==
  \E i \in 1..Len(Components(vpath)) :
    /\ Components(vpath)[i].kind = "Normal"
    /\ Q(Components(vpath)[i].name)

IsReservedAnyCase(name) == IsReservedName(UpperStem(name))

\* C16: the validator rejects a path when a component, cut at its first
\* period, is CON, PRN, AUX or NUL in any letter case (`con`, `Nul.txt`).
C16_RejectsReservedAnyCase ==
  (rres.by = "bad_path1" /\ SomeComponent(IsReservedAnyCase))
    => rres.status = "Rejected"

IsDeviceWithDigit(name) ==
  LET stem == BeforeFirstDot(name)
  IN /\ Len(stem) = 4
     /\ SubSeq(stem, 1, 3) \in {<<"C", "O", "M">>, <<"L", "P", "T">>}
     /\ IsAsciiDigit(stem[4])

\* C17: the validator rejects a path when a component, cut at its first
\* period, is COM or LPT followed by one digit (`COM1`, `LPT9.txt`).
C17_RejectsDeviceWithDigit ==
  (rres.by = "bad_path1" /\ SomeComponent(IsDeviceWithDigit))
    => rres.status = "Rejected"

\* C19: the validator rejects a path when a component begins or ends with
\* whitespace, on either side of a period (` a`, `a .txt`, `a.txt `).
C19_RejectsEdgeWhitespace ==
  (rres.by = "bad_path1" /\ SomeComponent(HasEdgeWhitespace))
    => rres.status = "Rejected"


\* A path whose pieces are all normal names that keep every rule of the
\* validator: no piece is empty, `.` or `..`, holds a forbidden character,
\* begins or ends with whitespace, or is a reserved name.
CleanPath(p) ==
  /\ p # <<>>
  /\ \A i \in 1..Len(SplitSlash(p)) :
       LET g == SplitSlash(p)[i]
       IN /\ g \notin {<<>>, <<".">>, <<".", ".">>}
          /\ \A j \in 1..Len(g) : ~IsAsciiControl(g[j]) /\ ~IsBadChar(g[j])
          /\ ~HasEdgeWhitespace(g)
          /\ ~IsReservedAnyCase(g)
          /\ ~IsDeviceWithDigit(g)

\* The canonical form of the client path joined to the root.
TargetOf(p) == Canonicalize(fsl, fse, Join(RootString, p))
TargetInside(p) == TargetOf(p).ok /\ StartsWith(TargetOf(p).path, Root)

\* C18: a client path of normal, rule-keeping components (`photos/cat.jpg`)
\* is accepted by the validator, and a resolver returns its confined path
\* when the target exists inside the root; the separator between
\* components is no cause of rejection.
C18_CleanPathAcceptedAndResolved ==
  /\ (rres.by = "bad_path1" /\ CleanPath(vpath)) => rres.status = "Accepted"
  /\ (rres.by \in Resolvers /\ CleanPath(vpath) /\ TargetInside(vpath))
       => rres.status = "Ok" /\ rres.path = TargetOf(vpath).path


\* C20: a resolver makes no file system call for a client path that the
\* validator rejects: the verdict comes before the first call, and a
\* rejected path causes none.
C20_RejectedPathTouchesNothing ==
  (rres.by \in Resolvers /\ bad_path1(vpath)) => rres.fs = <<>>


\* The outcome of the handler in hand on client path p.
SameHandlerOn(p) ==
  IF rres.by = "pathresolve" THEN pathresolve(fsl, fse, p)
  ELSE mw_guard_virt_path(fsl, fse, p)

\* C21: a leading separator of the client path is stripped before the join
\* with the root, so the path resolves as the same path without it does, and
\* the join never discards the root.
C21_LeadingSeparatorStripped ==
  (rres.by \in Resolvers /\ HasRoot(vpath)) =>
    /\ rres.status = SameHandlerOn(StripRoot(vpath)).status
    /\ rres.path = SameHandlerOn(StripRoot(vpath)).path


\* C22: a symlink entry that appears in a listing is shown under the
\* entry's own name, and is listed as file or directory after the kind of
\* its resolved target.
C22_LinkShownByOwnNameTargetKind ==
  (lres.by \in {"dirlistjson", "api_list", "dirlist"}) =>
    \A j \in 1..Len(lres.entries) :
      LET e == lres.entries[j]
      IN e.tag \in LinkTags =>
           /\ e.name = EntryName(e.idx)
           /\ e.kind = TargetKind(e.tag)


Listings == {"listdirsync", "dirlistjson", "dirlist", "api_list"}

\* The entries the listing read: all of them, or the first limit.
ReadUpTo == IF lres.limit = NoLimit THEN Len(ldir)
            ELSE IF lres.limit < Len(ldir) THEN lres.limit ELSE Len(ldir)

IsListed(i) == \E j \in 1..Len(lres.entries) : lres.entries[j].idx = i

\* C23: an error on one entry (an unreadable entry, a symlink whose target
\* cannot be resolved or stat'ed) drops that entry only, and the regular
\* files and directories among the other entries read are all listed; when
\* the directory itself cannot be opened the whole call fails.
C23_EntryErrorDropsOnlyEntry ==
  (lres.by \in Listings) =>
    /\ lres.err = ~lopen
    /\ lopen => \A i \in 1..ReadUpTo : ldir[i] \in {"file", "dir"} => IsListed(i)


\* ============================================ claims about the actor loop
\* C24: the actor takes its messages one at a time and in the order they
\* were enqueued: a sender appends at the tail; the actor takes the head,
\* and only when the message before it is done with (its change of the map
\* made, its reply sent); the map changes and replies of a step are those of
\* the one message in hand.
C24_OneAtATimeInOrder ==
  [][/\ Len(queue') > Len(queue) =>
          /\ Len(queue') = Len(queue) + 1
          /\ SubSeq(queue', 1, Len(queue)) = queue
     /\ (Len(queue') < Len(queue) /\ apc' # "panicked") =>
          /\ apc = "recv"
          /\ acur = NoMsg
          /\ queue' = Tail(queue)
     /\ cache' # cache =>
          /\ apc = "recv"
          /\ Head(queue).type = "Ins"
          /\ queue' = Tail(queue)
     /\ \A c \in Clients : Answers(c) =>
          /\ FinishesGet
          /\ GetInHand.from = c
          /\ apc = "recv" => GetInHand = Head(queue)]_vars

\* The actor is in the middle of a Get while two more messages wait.
C24_Witness ==
  /\ apc = "stat"
  /\ acur.type = "Get"
  /\ Len(queue) = 2


\* C25: ins is fire-and-forget: when the message cannot be enqueued (the
\* actor has stopped) the failure is swallowed, ins returns normally and the
\* request task goes on.
C25_InsNeverFails ==
  [][\A c \in Clients :
       (cpc[c] \in {"ins", "inssend"} /\ cpc'[c] \notin {"ins", "inssend"})
         => cpc'[c] = "idle"]_vars


\* C26: the actor's receive loop runs as long as a sender handle exists; the
\* loop ends only when every sender is dropped and the queue is drained, and
\* no message or request-task action stops it earlier.
C26_RunsWhileSenderExists ==
  [][(ChannelOpen /\ ~ChannelOpen') =>
       /\ apc' = "exited"
       /\ ~senderAlive
       /\ queue = <<>>]_vars


\* C27: the empty client path is accepted by the validator and stands for
\* the root: a resolver answers it with the root directory itself.
C27_EmptyPathIsRoot ==
  (vpath = <<>>) =>
    /\ rres.by = "bad_path1" => rres.status = "Accepted"
    /\ rres.by \in Resolvers => (rres.status = "Ok" /\ rres.path = Root)


\* C28: a directory with fewer entries than the limit is listed whole (every
\* regular file and directory in it) and with truncated = false.
C28_ShortDirNotTruncated ==
  (/\ lres.by \in {"listdirsync", "dirlistjson", "dirlist"}
   /\ lopen
   /\ lres.limit # NoLimit
   /\ Len(ldir) < lres.limit) =>
    /\ ~lres.truncated
    /\ \A i \in 1..Len(ldir) : ldir[i] \in {"file", "dir"} => IsListed(i)


\* C29: for each key the timestamp stored in the map never decreases: every
\* Insert the actor processes stores a timestamp at least as great as the
\* one it replaces, also when several tasks call ins for the key at once.
C29_StampNeverDecreases ==
  [][\A k \in Keys : cache[k].has => (cache'[k].has /\ cache'[k].ts >= cache[k].ts)]_vars


\* C30: a Get is processed as one piece across its stat: while the stat is
\* pending no other message is taken and the map does not change, so the
\* entry found present before the stat is still there after it (the read
\* does not fail) and is the one a hit returns.
C30_GetAtomicAcrossStat ==
  [][apc = "stat" =>
       /\ acur.type = "Get"
       /\ impl # "thcache" => cache[acur.key].has
       /\ cache' = cache
       /\ Len(queue') < Len(queue) => apc' = "panicked"
       /\ (Answers(acur.from) /\ oneshot'[acur.from].hit) =>
            /\ cache[acur.key].has
            /\ oneshot'[acur.from].ts = cache[acur.key].ts
            /\ oneshot'[acur.from].dat = cache[acur.key].dat]_vars

\* A Get waits for its stat with an entry for its key in the map while an
\* Insert for the same key is next in the queue.
C30_Witness ==
  /\ apc = "stat"
  /\ cache[acur.key].has
  /\ queue # <<>>
  /\ Head(queue).type = "Ins"
  /\ Head(queue).key = acur.key

====
